---- MODULE Spec2Model ----
(***************************************************************************)
(* Model of bevy_reflect's List capability: the List trait and its shared  *)
(* algorithms (crates/bevy_reflect/src/list.rs), DynamicList, ListIter and *)
(* the SmallVec adapter (crates/bevy_reflect/src/impls/smallvec.rs).       *)
(*                                                                         *)
(* Option<T> is a sequence of length at most one: None is <<>> and         *)
(* Some(x) is <<x>>. Rust indices are 0-based, sequences are 1-based.      *)
(***************************************************************************)
EXTENDS Integers, Sequences, FiniteSets, TLC

\* Longest list the model builds.
MaxLen == 3

\* usize::MAX, scaled to the longest list of the model, so that a list of
\* the maximum representable length exists (list.rs, next_index_increment).
USIZE_MAX == MaxLen

None == <<>>
Some(x) == <<x>>

(***************************************************************************)
(* Type-erased element values. Their Reflect implementations live outside  *)
(* list.rs and smallvec.rs; they follow the data model of the design: a    *)
(* kind tag, a runtime type, a checked downcast, clone-to-erased, a        *)
(* tri-state partial equality and a fallible apply.                        *)
(*   Item(n)  a value of the adapter's element type T::Item                *)
(*   Dyn1     a value of another runtime type from which T::Item's         *)
(*            from_reflect reconstructs Item(1)                            *)
(*   Opaque   a value of an unrelated type that supports no comparison     *)
(***************************************************************************)
Item(n) == [kind |-> "Value", ty |-> "Item", v |-> n]
Dyn1 == [kind |-> "Struct", ty |-> "DynamicItem", v |-> 1]
Opaque == [kind |-> "Value", ty |-> "Opaque", v |-> 0]
Elems == {Item(1), Item(2), Dyn1, Opaque}
Items == {Item(1), Item(2)}

\* Reflect::reflect_kind of a value.
reflect_kind(x) == x.kind

\* Reflect::clone_value of an element: an independent value of equal content.
clone_value(x) == x

\* Box<dyn Reflect>::take::<T::Item>(): the checked downcast.
take(x) == IF x.ty = "Item" THEN Some(x) ELSE None

\* <T::Item as FromReflect>::from_reflect: reconstruction from content.
from_reflect(x) ==
    IF x.ty = "Item" THEN Some(x)
    ELSE IF x.ty = "DynamicItem" THEN Some(Item(x.v))
    ELSE None

\* Reflect::reflect_partial_eq of an element: Some(TRUE), Some(FALSE), or
\* None when the comparison cannot be performed.
reflect_partial_eq(x, y) ==
    IF x.ty = "Opaque" THEN None
    ELSE Some(x.ty = y.ty /\ x.v = y.v)

\* Reflect::reflect_hash of an element: None for a value that cannot be
\* hashed. Distinct values may hash alike (Opaque and Item(1) do).
reflect_hash(x) ==
    IF x.ty = "DynamicItem" THEN None
    ELSE IF x.ty = "Opaque" THEN Some(1)
    ELSE Some(x.v)

\* Reflect::try_apply of an element: takes the value of y when y has the
\* runtime type of x, and fails otherwise, leaving x as it was.
Ok == [err |-> "Ok", from_kind |-> "", to_kind |-> ""]
MismatchedTypes == [err |-> "MismatchedTypes", from_kind |-> "", to_kind |-> ""]
MismatchedKinds(from, to) ==
    [err |-> "MismatchedKinds", from_kind |-> from, to_kind |-> to]
elem_try_apply(x, y) ==
    IF x.ty = y.ty THEN [value |-> y, res |-> Ok]
    ELSE [value |-> x, res |-> MismatchedTypes]

(***************************************************************************)
(* Lists.                                                                  *)
(***************************************************************************)
ListValue(ty, rt, values) ==
    [kind |-> "List", ty |-> ty, represented_type |-> rt, values |-> values]

\* DynamicList::default(): no represented type, no values.
DynamicList_default == ListValue("DynamicList", "None", <<>>)
\* An empty SmallVec<T>; its represented type is its own TypeInfo::List.
SmallVec_new == ListValue("SmallVec", "List(SmallVec)", <<>>)

\* Option<&'static TypeInfo>: "None", or the descriptor of a type. Only the
\* TypeInfo::List descriptors describe a list.
Descriptors == {"None", "List(Vec)", "List(SmallVec)", "Struct(Foo)", "Value(u32)"}
IsListInfo(represented_type) == represented_type \in {"List(Vec)", "List(SmallVec)"}

\* Outcome of set_represented_type: the stored descriptor and whether the
\* assertion failed.
TypeSet(represented_type, panicked) ==
    [represented_type |-> represented_type, panicked |-> panicked]

\* Faulty variant: the descriptor is stored before it is checked.
DynamicList_set_represented_type_unchecked(list, represented_type) ==
    TypeSet(represented_type,
            represented_type # "None" /\ ~IsListInfo(represented_type))

\* DynamicList::set_represented_type.
DynamicList_set_represented_type(list, represented_type) ==
    IF represented_type # "None" /\ ~IsListInfo(represented_type)
    THEN TypeSet(list.represented_type, TRUE)
    ELSE TypeSet(represented_type, FALSE)

len(list) == Len(list.values)
is_empty(list) == len(list) = 0

\* Faulty variant: the adapter's bound is off by one, the back element is
\* out of reach.
get_short(list, index) ==
    IF list.ty = "SmallVec"
    THEN IF index + 1 < len(list) THEN Some(list.values[index + 1]) ELSE None
    ELSE IF index < Len(list.values) THEN Some(list.values[index + 1]) ELSE None

get(list, index) ==
    IF list.ty = "SmallVec"
    THEN IF index < len(list) THEN Some(list.values[index + 1]) ELSE None
    ELSE IF index < Len(list.values) THEN Some(list.values[index + 1]) ELSE None

\* get_mut: the same element, borrowed mutably.
get_mut(list, index) ==
    IF list.ty = "SmallVec"
    THEN IF index < len(list) THEN Some(list.values[index + 1]) ELSE None
    ELSE IF index < Len(list.values) THEN Some(list.values[index + 1]) ELSE None

\* Reflect::get_represented_type_info.
get_represented_type_info(list) == list.represented_type

\* ReflectRef of a value: only list-shaped values give ReflectRef::List.
IsList(b) == b.kind = "List"

SeqInsert(s, index, x) == SubSeq(s, 1, index) \o <<x>> \o SubSeq(s, index + 1, Len(s))
SeqRemove(s, index) == SubSeq(s, 1, index) \o SubSeq(s, index + 2, Len(s))

\* Result of a mutating operation: the new values, the returned value (an
\* Option) and whether the operation panicked.
Done(values, ret) == [values |-> values, ret |-> ret, panicked |-> FALSE]
Panic(values) == [values |-> values, ret |-> None, panicked |-> TRUE]

\* The element conversion of the adapter: downcast, else reconstruction.
SmallVec_convert(value) ==
    IF take(value) # None THEN take(value) ELSE from_reflect(value)

\* Faulty variant: the element goes to the back, whatever the index.
DynamicList_insert_append(values, index, element) ==
    IF index > Len(values) THEN Panic(values)
    ELSE Done(Append(values, element), None)

DynamicList_insert(values, index, element) ==
    IF index > Len(values) THEN Panic(values)
    ELSE Done(SeqInsert(values, index, element), None)

\* Faulty variant: a value that is not of the element type is refused
\* without trying from_reflect.
SmallVec_insert_downcast_only(values, index, value) ==
    LET c == take(value) IN
    IF c = None THEN Panic(values)
    ELSE IF index > Len(values) THEN Panic(values)
    ELSE Done(SeqInsert(values, index, c[1]), None)

SmallVec_insert(values, index, value) ==
    LET c == SmallVec_convert(value) IN
    IF c = None THEN Panic(values)
    ELSE IF index > Len(values) THEN Panic(values)
    ELSE Done(SeqInsert(values, index, c[1]), None)

\* Faulty variant: an index past the end removes the back element.
DynamicList_remove_clamped(values, index) ==
    IF Len(values) = 0 THEN Panic(values)
    ELSE IF index >= Len(values)
    THEN Done(SubSeq(values, 1, Len(values) - 1), Some(values[Len(values)]))
    ELSE Done(SeqRemove(values, index), Some(values[index + 1]))

DynamicList_remove(values, index) ==
    IF index >= Len(values) THEN Panic(values)
    ELSE Done(SeqRemove(values, index), Some(values[index + 1]))

\* Faulty variant: swap_remove, the back element fills the hole.
SmallVec_remove_swap(values, index) ==
    IF index >= Len(values) THEN Panic(values)
    ELSE Done(SubSeq([values EXCEPT ![index + 1] = values[Len(values)]],
                     1, Len(values) - 1),
              Some(values[index + 1]))

SmallVec_remove(values, index) ==
    IF index >= Len(values) THEN Panic(values)
    ELSE Done(SeqRemove(values, index), Some(values[index + 1]))

DynamicList_push_box(values, value) == Done(Append(values, value), None)

\* DynamicList::push::<T>: the typed value is boxed and appended.
DynamicList_push_value(values, value) == Done(Append(values, value), None)

DynamicList_push(values, value) == DynamicList_push_box(values, value)

\* Faulty variant: the converted value goes to the front.
SmallVec_push_front(values, value) ==
    LET c == SmallVec_convert(value) IN
    IF c = None THEN Panic(values)
    ELSE Done(<<c[1]>> \o values, None)

SmallVec_push(values, value) ==
    LET c == SmallVec_convert(value) IN
    IF c = None THEN Panic(values)
    ELSE Done(Append(values, c[1]), None)

DynamicList_pop(values) ==
    IF Len(values) = 0 THEN Done(values, None)
    ELSE Done(SubSeq(values, 1, Len(values) - 1), Some(values[Len(values)]))

\* Faulty variant: the front element is taken.
SmallVec_pop_front(values) ==
    IF Len(values) = 0 THEN Done(values, None)
    ELSE Done(Tail(values), Some(Head(values)))

SmallVec_pop(values) ==
    IF Len(values) = 0 THEN Done(values, None)
    ELSE Done(SubSeq(values, 1, Len(values) - 1), Some(values[Len(values)]))

\* Faulty variant: the values come out back to front.
DynamicList_drain_reversed(values) ==
    [k \in 1 .. Len(values) |-> values[Len(values) + 1 - k]]

\* DynamicList::drain: the owned vector itself.
DynamicList_drain(values) == values

\* SmallVec::drain: into_iter(), each value boxed, collected.
SmallVec_drain(values) == [k \in 1 .. Len(values) |-> values[k]]

\* Dynamic dispatch of the List methods on the concrete type.
List_insert(list, index, element) ==
    IF list.ty = "SmallVec" THEN SmallVec_insert(list.values, index, element)
    ELSE DynamicList_insert(list.values, index, element)
List_remove(list, index) ==
    IF list.ty = "SmallVec" THEN SmallVec_remove(list.values, index)
    ELSE DynamicList_remove(list.values, index)
List_push(list, value) ==
    IF list.ty = "SmallVec" THEN SmallVec_push(list.values, value)
    ELSE DynamicList_push(list.values, value)
List_pop(list) ==
    IF list.ty = "SmallVec" THEN SmallVec_pop(list.values)
    ELSE DynamicList_pop(list.values)

List_drain(list) ==
    IF list.ty = "SmallVec" THEN SmallVec_drain(list.values)
    ELSE DynamicList_drain(list.values)

\* The trait's default push: insert at len().
List_push_default(list, value) == List_insert(list, len(list), value)

\* The trait's default pop: None on an empty list, else remove(len() - 1).
List_pop_default(list) ==
    IF is_empty(list) THEN Done(list.values, None)
    ELSE List_remove(list, len(list) - 1)

(***************************************************************************)
(* ListIter: a list reference and an index.                                *)
(***************************************************************************)
\* ListIter::new.
ListIter_new == 0

\* Faulty variant: the index advances on every call, exhausted or not.
ListIter_advance_always(index, value) == (index + 1) % (USIZE_MAX + 1)
\* The index after next(): index += value.is_some() as usize, in usize.
ListIter_advance(index, value) ==
    (index + (IF value # None THEN 1 ELSE 0)) % (USIZE_MAX + 1)

\* Faulty variant: the elements come back to front.
ListIter_next_back(list, index) ==
    LET value == IF index < len(list) THEN get(list, len(list) - 1 - index)
                 ELSE None IN
    [value |-> value, index |-> ListIter_advance(index, value)]
\* ListIter::next: the yielded value and the index after the call.
ListIter_next(list, index) ==
    LET value == get(list, index) IN
    [value |-> value, index |-> ListIter_advance(index, value)]

\* Faulty variant: the elements still to come.
ListIter_size_hint_remaining(list, index) ==
    <<len(list) - index, Some(len(list) - index)>>
\* ListIter::size_hint, on an iterator over list at index.
ListIter_size_hint(list, index) ==
    LET size == len(list) IN <<size, Some(size)>>

\* The elements a for loop (or collect) over an iterator at `index` yields:
\* next() until the first None.
RECURSIVE ListIter_rest(_, _)
ListIter_rest(list, index) ==
    LET r == ListIter_next(list, index) IN
    IF r.value = None THEN <<>>
    ELSE <<r.value[1]>> \o ListIter_rest(list, r.index)

iter(list) == ListIter_rest(list, ListIter_new)

\* Iterator::zip: pairs until either side is exhausted.
Min(m, n) == IF m < n THEN m ELSE n
zip(s, t) == [k \in 1 .. Min(Len(s), Len(t)) |-> <<s[k], t[k]>>]

(***************************************************************************)
(* clone_dynamic.                                                          *)
(***************************************************************************)
\* The trait's default, used by the SmallVec adapter.
List_clone_dynamic(list) ==
    LET vs == iter(list) IN
    ListValue("DynamicList", get_represented_type_info(list),
              [k \in 1 .. Len(vs) |-> clone_value(vs[k])])

\* Faulty variant: the back element is not cloned.
DynamicList_clone_dynamic_short(list) ==
    ListValue("DynamicList", list.represented_type,
              [k \in 1 .. (Len(list.values) - 1) |-> clone_value(list.values[k])])

\* DynamicList's override.
DynamicList_clone_dynamic(list) ==
    ListValue("DynamicList", list.represented_type,
              [k \in 1 .. Len(list.values) |-> clone_value(list.values[k])])

clone_dynamic(list) ==
    IF list.ty = "DynamicList" THEN DynamicList_clone_dynamic(list)
    ELSE List_clone_dynamic(list)

(***************************************************************************)
(* <SmallVec<T> as FromReflect>::from_reflect.                             *)
(***************************************************************************)
\* The loop over the source's fields from field k on; new_list holds the
\* elements converted so far. A field that does not convert ends it (`?`).
RECURSIVE from_reflect_loop(_, _, _)
from_reflect_loop(fields, k, new_list) ==
    IF k > Len(fields) THEN Some(ListValue("SmallVec", "List(SmallVec)", new_list))
    ELSE LET item == from_reflect(fields[k]) IN
         IF item = None THEN None
         ELSE from_reflect_loop(fields, k + 1, Append(new_list, item[1]))

\* Faulty variant: a field that does not convert is left out.
RECURSIVE from_reflect_skipping(_, _, _)
from_reflect_skipping(fields, k, new_list) ==
    IF k > Len(fields) THEN Some(ListValue("SmallVec", "List(SmallVec)", new_list))
    ELSE LET item == from_reflect(fields[k]) IN
         from_reflect_skipping(fields, k + 1,
                               IF item = None THEN new_list
                               ELSE Append(new_list, item[1]))
SmallVec_from_reflect_partial(reflect) ==
    IF IsList(reflect) THEN from_reflect_skipping(iter(reflect), 1, <<>>)
    ELSE None

SmallVec_from_reflect(reflect) ==
    IF IsList(reflect) THEN from_reflect_loop(iter(reflect), 1, <<>>)
    ELSE None

(***************************************************************************)
(* list_hash.                                                              *)
(***************************************************************************)
\* Width of a hash value, scaled down from the 64 bits of u64.
HashBits == 6

\* The hasher: reflect_hasher() starts every hash from the same state, each
\* write folds a word into it, finish() reads it.
reflect_hasher == 0
hasher_write(h, word) == (h * 31 + word + 1) % (2 ^ HashBits)

\* Any::type_id of the concrete list type, as a word.
type_id(list) == IF list.ty = "DynamicList" THEN 11 ELSE 12

\* The loop over the elements from element k on, hasher state h; an element
\* without a hash ends it (`?`).
RECURSIVE list_hash_loop(_, _, _)
list_hash_loop(values, k, h) ==
    IF k > Len(values) THEN Some(h)
    ELSE LET eh == reflect_hash(values[k]) IN
         IF eh = None THEN None
         ELSE list_hash_loop(values, k + 1, hasher_write(h, eh[1]))

\* Faulty variant: an element without a hash is passed over.
RECURSIVE list_hash_skipping(_, _, _)
list_hash_skipping(values, k, h) ==
    IF k > Len(values) THEN Some(h)
    ELSE LET eh == reflect_hash(values[k]) IN
         list_hash_skipping(values, k + 1,
                            IF eh = None THEN h ELSE hasher_write(h, eh[1]))
list_hash_lenient(list) ==
    list_hash_skipping(iter(list), 1,
        hasher_write(hasher_write(reflect_hasher, type_id(list)), len(list)))

list_hash(list) ==
    list_hash_loop(iter(list), 1,
        hasher_write(hasher_write(reflect_hasher, type_id(list)), len(list)))

(***************************************************************************)
(* list_partial_eq.                                                        *)
(***************************************************************************)
\* The loop over the zipped pairs from pair k on.
RECURSIVE partial_eq_loop(_, _)
partial_eq_loop(pairs, k) ==
    IF k > Len(pairs) THEN Some(TRUE)
    ELSE LET eq_result == reflect_partial_eq(pairs[k][1], pairs[k][2]) IN
         IF eq_result = Some(FALSE) \/ eq_result = None THEN eq_result
         ELSE partial_eq_loop(pairs, k + 1)

\* Faulty variant: an undecidable pair is reported as a definite false.
list_partial_eq_conflated(x, b) ==
    IF ~IsList(b) THEN Some(FALSE)
    ELSE IF len(x) # len(b) THEN Some(FALSE)
    ELSE LET r == partial_eq_loop(zip(iter(x), iter(b)), 1) IN
         IF r = None THEN Some(FALSE) ELSE r

\* Faulty variant: the lengths are not compared.
list_partial_eq_no_len(x, b) ==
    IF ~IsList(b) THEN Some(FALSE)
    ELSE partial_eq_loop(zip(iter(x), iter(b)), 1)

list_partial_eq(x, b) ==
    IF ~IsList(b) THEN Some(FALSE)
    ELSE IF len(x) # len(b) THEN Some(FALSE)
    ELSE partial_eq_loop(zip(iter(x), iter(b)), 1)

(***************************************************************************)
(* list_try_apply and list_apply.                                          *)
(***************************************************************************)
Applied(values, res, panicked) ==
    [values |-> values, res |-> res, panicked |-> panicked]

\* The loop over b's elements from element i (0-based) on; `x` is the list
\* being written.
RECURSIVE try_apply_loop(_, _, _)
try_apply_loop(x, bs, i) ==
    IF i >= Len(bs) THEN Applied(x.values, Ok, FALSE)
    ELSE LET value == bs[i + 1] IN
         IF i < len(x)
         THEN IF get_mut(x, i) # None
              THEN LET r == elem_try_apply(get_mut(x, i)[1], value) IN
                   IF r.res # Ok
                   THEN Applied([x.values EXCEPT ![i + 1] = r.value], r.res, FALSE)
                   ELSE try_apply_loop(
                            [x EXCEPT !.values = [x.values EXCEPT ![i + 1] = r.value]],
                            bs, i + 1)
              ELSE try_apply_loop(x, bs, i + 1)
         ELSE LET p == List_push(x, clone_value(value)) IN
              IF p.panicked THEN Applied(p.values, Ok, TRUE)
              ELSE try_apply_loop([x EXCEPT !.values = p.values], bs, i + 1)

\* Faulty variant: the elements of b past the end of the list are not pushed.
list_try_apply_no_push(x, b) ==
    IF IsList(b) THEN try_apply_loop(x, SubSeq(iter(b), 1, Min(len(x), len(b))), 0)
    ELSE Applied(x.values, MismatchedKinds(reflect_kind(b), "List"), FALSE)

\* Faulty variant: the list is cut to the length of b.
list_try_apply_truncate(x, b) ==
    IF IsList(b)
    THEN LET r == try_apply_loop(x, iter(b), 0) IN
         [r EXCEPT !.values = SubSeq(r.values, 1, Min(Len(r.values), len(b)))]
    ELSE Applied(x.values, MismatchedKinds(reflect_kind(b), "List"), FALSE)

\* Faulty variant: from_kind and to_kind are exchanged.
list_try_apply_swapped_kinds(x, b) ==
    IF IsList(b) THEN try_apply_loop(x, iter(b), 0)
    ELSE Applied(x.values, MismatchedKinds("List", reflect_kind(b)), FALSE)

\* Faulty variant: a failed element restores the list as it was.
list_try_apply_rollback(x, b) ==
    IF IsList(b)
    THEN LET r == try_apply_loop(x, iter(b), 0) IN
         IF r.res # Ok THEN [r EXCEPT !.values = x.values] ELSE r
    ELSE Applied(x.values, MismatchedKinds(reflect_kind(b), "List"), FALSE)

list_try_apply(x, b) ==
    IF IsList(b) THEN try_apply_loop(x, iter(b), 0)
    ELSE Applied(x.values, MismatchedKinds(reflect_kind(b), "List"), FALSE)

\* list_apply: an error of list_try_apply becomes a panic.
list_apply(x, b) ==
    LET r == list_try_apply(x, b) IN
    IF r.res # Ok THEN [r EXCEPT !.panicked = TRUE] ELSE r

(***************************************************************************)
(* State.                                                                  *)
(***************************************************************************)
VARIABLES
    a,      \* the list under operation
    it,     \* the ListIter borrowed from a, when one is alive
    last    \* the last operation: its arguments, the values of a before it,
            \* and its results

vars == <<a, it, last>>

\* No iterator alive. state records what next() last returned: "new" before
\* the first call, "some", "none" for the first None, "none_again" after it.
NoIter ==
    [active |-> FALSE, index |-> 0, state |-> "none", item |-> None,
     yielded |-> <<>>, hint |-> None]

NoOp ==
    [op |-> "new", old |-> <<>>, index |-> 0, value |-> None, arg |-> None,
     ret |-> None, res |-> Ok, eq |-> None, out |-> None, panicked |-> FALSE]

Call(op) == [NoOp EXCEPT !.op = op, !.old = a.values]

\* Sequences over S of length at most n.
SeqsUpTo(S, n) == UNION {[1 .. k -> S] : k \in 0 .. n}

\* The values handed to apply, try_apply and reflect_partial_eq: dynamic
\* lists of any elements, adapter lists of items, and values that are no list.
Args ==
    {ListValue("DynamicList", "None", vs) : vs \in SeqsUpTo(Elems, MaxLen)}
    \cup {ListValue("SmallVec", "List(SmallVec)", vs) : vs \in SeqsUpTo(Items, MaxLen)}
    \cup Elems

Init ==
    /\ a \in {DynamicList_default, SmallVec_new}
    /\ it = NoIter
    /\ last = NoOp

\* A panic aborts the program: nothing runs after it. drain takes the list
\* by value (self: Box<Self>): nothing can be called on it afterwards.
Running == ~last.panicked /\ last.op # "drain"

\* A call on the list needs the previous call to have returned, and no
\* iterator borrowing the list (mutation needs exclusive access).
Exclusive == Running /\ last.op = "new" /\ ~it.active

Finish(call, r) ==
    /\ a' = [a EXCEPT !.values = r.values]
    /\ last' = [call EXCEPT !.ret = r.ret, !.panicked = r.panicked]
    /\ UNCHANGED it

Insert(index, element) ==
    /\ Exclusive
    /\ len(a) < MaxLen \/ index > len(a)
    /\ Finish([Call("insert") EXCEPT !.index = index, !.value = Some(element)],
              List_insert(a, index, element))

Remove(index) ==
    /\ Exclusive
    /\ Finish([Call("remove") EXCEPT !.index = index], List_remove(a, index))

Push(value) ==
    /\ Exclusive
    /\ len(a) < MaxLen
    /\ Finish([Call("push") EXCEPT !.value = Some(value)], List_push(a, value))

\* DynamicList::push(value) with a typed value.
PushValue(value) ==
    /\ Exclusive
    /\ a.ty = "DynamicList"
    /\ len(a) < MaxLen
    /\ Finish([Call("push_value") EXCEPT !.value = Some(value)],
              DynamicList_push_value(a.values, value))

Pop ==
    /\ Exclusive
    /\ Finish(Call("pop"), List_pop(a))

\* a.get(index)
Get(index) ==
    /\ Exclusive
    /\ last' = [Call("get") EXCEPT !.index = index, !.ret = get(a, index)]
    /\ UNCHANGED <<a, it>>

\* a.get_mut(index), the element left as it is.
GetMut(index) ==
    /\ Exclusive
    /\ last' = [Call("get_mut") EXCEPT !.index = index, !.ret = get_mut(a, index)]
    /\ UNCHANGED <<a, it>>

\* list_hash(&a)
Hash ==
    /\ Exclusive
    /\ last' = [Call("list_hash") EXCEPT !.out = list_hash(a)]
    /\ UNCHANGED <<a, it>>

\* Box::new(a).drain(): the values move out and the list is gone.
Drain ==
    /\ Exclusive
    /\ a' = [a EXCEPT !.values = <<>>]
    /\ last' = [Call("drain") EXCEPT !.out = Some(List_drain(a))]
    /\ UNCHANGED it

\* SmallVec::<T>::from_reflect(source): the source is the list or a value
\* that is no list.
FromReflect(source) ==
    /\ Exclusive
    /\ last' = [Call("from_reflect") EXCEPT !.arg = Some(source),
                                            !.out = SmallVec_from_reflect(source)]
    /\ UNCHANGED <<a, it>>

\* a.try_apply(b)
TryApply(b) ==
    /\ Exclusive
    /\ LET r == list_try_apply(a, b) IN
       /\ a' = [a EXCEPT !.values = r.values]
       /\ last' = [Call("try_apply") EXCEPT !.arg = Some(b), !.res = r.res,
                                            !.panicked = r.panicked]
    /\ UNCHANGED it

\* a.apply(b)
Apply(b) ==
    /\ Exclusive
    /\ LET r == list_apply(a, b) IN
       /\ a' = [a EXCEPT !.values = r.values]
       /\ last' = [Call("apply") EXCEPT !.arg = Some(b), !.res = r.res,
                                        !.panicked = r.panicked]
    /\ UNCHANGED it

\* a.reflect_partial_eq(b)
PartialEq(b) ==
    /\ Exclusive
    /\ last' = [Call("reflect_partial_eq") EXCEPT !.arg = Some(b),
                                                  !.eq = list_partial_eq(a, b)]
    /\ UNCHANGED <<a, it>>

\* a.clone_dynamic()
CloneDynamic ==
    /\ Exclusive
    /\ last' = [Call("clone_dynamic") EXCEPT !.out = Some(clone_dynamic(a))]
    /\ UNCHANGED <<a, it>>

\* a.iter()
Iter ==
    /\ Exclusive
    /\ it' = [NoIter EXCEPT !.active = TRUE, !.index = ListIter_new,
                             !.state = "new"]
    /\ UNCHANGED <<a, last>>

\* it.next()
IterNext ==
    /\ Running
    /\ it.active
    /\ LET r == ListIter_next(a, it.index) IN
       it' = [active |-> TRUE, index |-> r.index,
              state |-> IF r.value # None THEN "some"
                        ELSE IF it.state \in {"none", "none_again"} THEN "none_again"
                        ELSE "none",
              item |-> r.value,
              yielded |-> it.yielded \o r.value,
              hint |-> None]
    /\ UNCHANGED <<a, last>>

\* it.size_hint(); the iterator keeps what it reported until the next
\* call of next().
IterSizeHint ==
    /\ Running
    /\ it.active
    /\ it.hint = None
    /\ it' = [it EXCEPT !.hint = Some(ListIter_size_hint(a, it.index))]
    /\ UNCHANGED <<a, last>>

\* The iterator is dropped and its borrow ends.
IterDrop ==
    /\ Running
    /\ it.active
    /\ it' = NoIter
    /\ UNCHANGED <<a, last>>

\* The caller is done with the outcome of the last call.
Return ==
    /\ Running
    /\ last.op # "new"
    /\ last' = NoOp
    /\ UNCHANGED <<a, it>>

\* a.set_represented_type(represented_type), on a DynamicList.
SetRepresentedType(represented_type) ==
    /\ Exclusive
    /\ a.ty = "DynamicList"
    /\ LET r == DynamicList_set_represented_type(a, represented_type) IN
       /\ a' = [a EXCEPT !.represented_type = r.represented_type]
       /\ last' = [Call("set_represented_type") EXCEPT
                       !.arg = Some(represented_type),
                       !.out = Some(a.represented_type),
                       !.panicked = r.panicked]
    /\ UNCHANGED it

Next ==
    \/ \E index \in 0 .. USIZE_MAX, element \in Elems : Insert(index, element)
    \/ \E index \in 0 .. USIZE_MAX : Remove(index)
    \/ \E value \in Elems : Push(value)
    \/ \E value \in Elems : PushValue(value)
    \/ Pop
    \/ \E index \in 0 .. USIZE_MAX : Get(index)
    \/ \E index \in 0 .. USIZE_MAX : GetMut(index)
    \/ Drain
    \/ Hash
    \/ \E source \in {a} \cup Elems : FromReflect(source)
    \/ \E b \in Args : TryApply(b)
    \/ \E b \in Args : Apply(b)
    \/ \E b \in Args : PartialEq(b)
    \/ CloneDynamic
    \/ Iter
    \/ IterNext
    \/ IterSizeHint
    \/ IterDrop
    \/ Return

Spec == Init /\ [][Next]_vars

\* The list with its represented type set between the mutations.
NextTyped ==
    \/ \E represented_type \in Descriptors : SetRepresentedType(represented_type)
    \/ \E index \in 0 .. USIZE_MAX, element \in Elems : Insert(index, element)
    \/ \E index \in 0 .. USIZE_MAX : Remove(index)
    \/ \E value \in Elems : Push(value)
    \/ Pop
    \/ CloneDynamic
    \/ Return

SpecTyped == Init /\ [][NextTyped]_vars

(***************************************************************************)
(* Properties.                                                             *)
(***************************************************************************)
B == last.arg[1]
Old == last.old
Applying == last.op \in {"apply", "try_apply"}
Indices(s) == 1 .. Len(s)

\* C1 as stated: for every list a, whatever its elements,
\* list_partial_eq(a, a.clone_dynamic()) is Some(true).
C1_CloneAlwaysPartialEq ==
    last.op = "clone_dynamic" => list_partial_eq(a, last.out[1]) = Some(TRUE)

\* Each element of s compares Some(true) with its own clone.
ElementsEqualOwnClone(s) ==
    \A k \in Indices(s) : reflect_partial_eq(s[k], clone_value(s[k])) = Some(TRUE)

\* C1 amended: for every list a (DynamicList or SmallVec adapter, empty or
\* not) whose elements each compare Some(true) with their own clone_value,
\* list_partial_eq(a, a.clone_dynamic()) is Some(true).
C1_CloneDynamicPartialEq ==
    (last.op = "clone_dynamic" /\ ElementsEqualOwnClone(a.values))
        => list_partial_eq(a, last.out[1]) = Some(TRUE)

C1_Witness ==
    /\ last.op = "clone_dynamic"
    /\ len(a) >= 2
    /\ ElementsEqualOwnClone(a.values)
    /\ last.out[1].ty = "DynamicList"
    /\ list_partial_eq(a, last.out[1]) = Some(TRUE)

\* The comparison of the k-th pair of a and b.
PairEq(k) == reflect_partial_eq(a.values[k], B.values[k])
Comparing == last.op = "reflect_partial_eq"
SameLenLists == IsList(B) /\ len(a) = len(B)

\* C2 as stated: with b list-shaped and of a's length, any pair that
\* compares None makes the whole comparison None, wherever the pair is and
\* whatever the other pairs compare.
C2_AnyUndecidablePairGivesNone ==
    (Comparing /\ SameLenLists /\ \E k \in Indices(a.values) : PairEq(k) = None)
        => last.eq = None

\* C2 amended: with b list-shaped and of a's length, the comparison is the
\* result of the first pair that does not compare true: None when that pair
\* is undecidable (never false), and false when that pair compares false,
\* also when a later pair is undecidable.
C2_FirstFailedPairDecides ==
    (Comparing /\ SameLenLists)
        => \A k \in Indices(a.values) :
               ((\A j \in 1 .. (k - 1) : PairEq(j) = Some(TRUE))
                   /\ PairEq(k) # Some(TRUE))
               => last.eq = PairEq(k)

C2_Witness ==
    /\ Comparing /\ SameLenLists
    /\ len(a) >= 2
    /\ PairEq(1) = Some(TRUE)
    /\ PairEq(2) = None
    /\ last.eq = None

\* C3: list_partial_eq(a, b) is Some(true) if and only if b is list-shaped,
\* the lengths are equal and every pair of corresponding elements compares
\* Some(true); it is Some(false), not None, when b is not list-shaped or
\* the lengths differ.
C3_PartialEqTrueIff ==
    Comparing =>
        /\ (last.eq = Some(TRUE))
               <=> (/\ IsList(B)
                    /\ len(a) = len(B)
                    /\ \A k \in Indices(a.values) : PairEq(k) = Some(TRUE))
        /\ (~IsList(B) \/ len(a) # len(B)) => last.eq = Some(FALSE)

C3_Witness ==
    /\ Comparing /\ SameLenLists
    /\ len(a) >= 2
    /\ a.ty # B.ty
    /\ last.eq = Some(TRUE)

\* The value a list of type ty stores for a clone of x pushed onto it.
StoredClone(ty, x) ==
    IF ty = "SmallVec" THEN SmallVec_convert(clone_value(x))[1] ELSE clone_value(x)

Succeeded == Applying /\ ~last.panicked /\ last.res = Ok

\* C4: after a successful apply or try_apply(a, b) with list b longer than
\* a, len(a) = len(b), every index from the old length on holds a clone of
\* b's element there, and every index below the old length holds the result
\* of applying b's element onto a's old element.
C4_ApplyLonger ==
    (Succeeded /\ IsList(B) /\ len(B) > Len(Old))
        => /\ len(a) = len(B)
           /\ \A k \in (Len(Old) + 1) .. len(B) :
                  /\ a.values[k] = StoredClone(a.ty, B.values[k])
                  /\ a.values[k].v = B.values[k].v
           /\ \A k \in Indices(Old) :
                  a.values[k] = elem_try_apply(Old[k], B.values[k]).value

C4_Witness ==
    /\ Succeeded /\ IsList(B)
    /\ Len(Old) >= 1
    /\ len(B) >= Len(Old) + 2
    /\ a.values # Old
    /\ Old[1] # B.values[1]
    /\ len(a) = len(B)

\* C5: after a successful apply or try_apply(a, b) with list b shorter than
\* a, len(a) is unchanged and every element of a at an index >= len(b) is
\* as it was.
C5_ApplyShorter ==
    (Succeeded /\ IsList(B) /\ len(B) < Len(Old))
        => /\ len(a) = Len(Old)
           /\ \A k \in (len(B) + 1) .. Len(Old) : a.values[k] = Old[k]

C5_Witness ==
    /\ Succeeded /\ IsList(B)
    /\ len(B) >= 1
    /\ Len(Old) >= len(B) + 2
    /\ a.values # Old
    /\ len(a) = Len(Old)

\* C6: try_apply(a, b) with b not list-shaped returns MismatchedKinds naming
\* b's kind and the List kind and leaves a unchanged; apply(a, b) is the
\* same operation with the error turned into a panic.
C6_MismatchedKinds ==
    /\ (Applying /\ ~IsList(B))
           => /\ last.res = MismatchedKinds(reflect_kind(B), "List")
              /\ a.values = Old
              /\ last.panicked <=> last.op = "apply"
    /\ (Applying /\ last.res # Ok) => (last.panicked <=> last.op = "apply")

C6_Witness ==
    /\ last.op = "try_apply"
    /\ ~IsList(B)
    /\ reflect_kind(B) = "Struct"
    /\ len(a) >= 1
    /\ last.res.err = "MismatchedKinds"
    /\ ~last.panicked

\* C7: once next() has returned None, every later next() on the iterator
\* returns None and leaves the index unchanged; the index never exceeds
\* len(list), also when len(list) is the largest index value.
\* (A step of an active iterator that leaves no reported size behind is a
\* call of next().)
C7_ExhaustionIsStable ==
    [][/\ it'.active => it'.index <= len(a')
       /\ (it.active /\ it.state \in {"none", "none_again"} /\ it'.active
              /\ it'.hint = None)
              => /\ it'.item = None
                 /\ it'.state = "none_again"
                 /\ it'.index = it.index]_vars

C7_Witness ==
    /\ it.active
    /\ it.state = "none_again"
    /\ len(a) = USIZE_MAX
    /\ it.index = USIZE_MAX

Inserted == last.op = "insert" /\ last.index <= Len(Old)
\* The elements around position `index` (0-based) after an insert there.
ShiftedBack(index) ==
    /\ len(a) = Len(Old) + 1
    /\ \A k \in 1 .. index : a.values[k] = Old[k]
    /\ \A k \in (index + 1) .. Len(Old) : a.values[k + 1] = Old[k]

\* C8 as stated: insert(i, v) with i <= len() yields a list of length
\* len() + 1 in which index i holds v, the elements from i on have moved one
\* place back and the elements before i are unchanged, for DynamicList and
\* for the SmallVec adapter.
C8_InsertAnyValue ==
    Inserted
        => /\ ~last.panicked
           /\ ShiftedBack(last.index)
           /\ a.values[last.index + 1] = last.value[1]

\* C8 amended: the same, provided that on the SmallVec adapter v converts
\* to the element type (by downcast or by from_reflect); index i then holds
\* v on a DynamicList and the element converted from v on the adapter. With
\* a value that does not convert the adapter's insert panics.
C8_InsertShifts ==
    (Inserted /\ (a.ty = "SmallVec" => SmallVec_convert(last.value[1]) # None))
        => /\ ~last.panicked
           /\ ShiftedBack(last.index)
           /\ a.values[last.index + 1] =
                  (IF a.ty = "SmallVec" THEN SmallVec_convert(last.value[1])[1]
                   ELSE last.value[1])

C8_Witness ==
    /\ Inserted
    /\ ~last.panicked
    /\ Len(Old) = 2
    /\ last.index = 1
    /\ Old[1] # Old[2]
    /\ a.values[2] # Old[2]
    /\ a.values[3] = Old[2]

OutOfBounds ==
    \/ last.op = "insert" /\ last.index > Len(Old)
    \/ last.op = "remove" /\ last.index >= Len(Old)

\* C10: insert(i, v) with i > len() and remove(i) with i >= len() panic in
\* every list state, on DynamicList and on the SmallVec adapter; the list is
\* not modified and no value is returned.
C10_OutOfBoundsPanics ==
    OutOfBounds => (last.panicked /\ a.values = Old /\ last.ret = None)

C10_Witness ==
    /\ OutOfBounds
    /\ last.op = "remove"
    /\ a.ty = "SmallVec"
    /\ Len(Old) >= 1
    /\ last.panicked

\* The list as it was before the last call.
OldList == [a EXCEPT !.values = Old]
Pushed == last.op \in {"push", "push_value"}

\* C11: push(v) is equivalent to insert(len(), v) in every list state: the
\* trait default, DynamicList's push and push_box and the SmallVec
\* override leave the old elements in order followed by v, one element
\* more, and panic exactly when insert(len(), v) would.
C11_PushIsInsertAtLen ==
    Pushed
        => LET ins == List_insert(OldList, Len(Old), last.value[1])
               dflt == List_push_default(OldList, last.value[1]) IN
           /\ a.values = ins.values /\ last.panicked = ins.panicked
           /\ a.values = dflt.values /\ last.panicked = dflt.panicked
           /\ ~last.panicked
                  => /\ len(a) = Len(Old) + 1
                     /\ SubSeq(a.values, 1, Len(Old)) = Old
                     /\ a.values[len(a)] =
                            (IF a.ty = "SmallVec" THEN SmallVec_convert(last.value[1])[1]
                             ELSE last.value[1])
           /\ last.panicked => a.values = Old

C11_Witness ==
    /\ last.op = "push"
    /\ a.ty = "SmallVec"
    /\ Len(Old) = 2
    /\ Old[1] # Old[2]
    /\ ~last.panicked
    /\ a.values[3] # Old[1]
    /\ a.values = Append(Old, a.values[3])

\* C12: pop() on an empty list returns None and leaves the list empty; on
\* a non-empty list it returns the back element and leaves the other
\* elements in order, exactly as remove(len() - 1) does; so do the trait
\* default and the DynamicList and SmallVec overrides.
C12_PopIsRemoveLast ==
    last.op = "pop"
        => LET dflt == List_pop_default(OldList) IN
           /\ ~last.panicked
           /\ a.values = dflt.values /\ last.ret = dflt.ret
           /\ Old = <<>> => (last.ret = None /\ a.values = <<>>)
           /\ Old # <<>>
                  => LET rem == List_remove(OldList, Len(Old) - 1) IN
                     /\ last.ret = Some(Old[Len(Old)])
                     /\ a.values = SubSeq(Old, 1, Len(Old) - 1)
                     /\ a.values = rem.values /\ last.ret = rem.ret

C12_Witness ==
    /\ last.op = "pop"
    /\ a.ty = "SmallVec"
    /\ Len(Old) = 3
    /\ Old[1] # Old[3]
    /\ last.ret = Some(Old[3])
    /\ a.values = <<Old[1], Old[2]>>

\* C13: drain() on a list of n elements, however pushes, inserts and
\* removes built it, returns exactly those n values in front-to-back order,
\* and consumes the list: no operation on it is possible afterwards.
C13_DrainInOrder ==
    last.op = "drain"
        => /\ Len(last.out[1]) = Len(Old)
           /\ \A k \in Indices(Old) : last.out[1][k] = Old[k]
           /\ ~ENABLED Next

C13_Witness ==
    /\ last.op = "drain"
    /\ Len(Old) = 3
    /\ Old[1] # Old[2] /\ Old[2] # Old[3]
    /\ last.out = Some(Old)

Reconstructing == last.op = "from_reflect"
Converts(x) == from_reflect(x) # None

\* C14: SmallVec::from_reflect is all-or-nothing: from a list-shaped source
\* whose n elements all convert it returns a container of length n holding
\* the converted values in source order; from a source that is no list it
\* returns None; if any element fails to convert it returns None and never
\* a partly filled container; it never panics.
C14_FromReflectAllOrNothing ==
    Reconstructing
        => /\ ~last.panicked
           /\ ~IsList(B) => last.out = None
           /\ (IsList(B) /\ \E k \in Indices(B.values) : ~Converts(B.values[k]))
                  => last.out = None
           /\ (IsList(B) /\ \A k \in Indices(B.values) : Converts(B.values[k]))
                  => /\ last.out # None
                     /\ last.out[1].ty = "SmallVec"
                     /\ len(last.out[1]) = len(B)
                     /\ \A k \in Indices(B.values) :
                            last.out[1].values[k] = from_reflect(B.values[k])[1]

C14_Witness ==
    /\ Reconstructing
    /\ IsList(B)
    /\ B.ty = "DynamicList"
    /\ len(B) = 3
    /\ B.values[1] = Dyn1
    /\ B.values[2] = Item(2)
    /\ last.out # None
    /\ last.out[1].values[1] = Item(1)

\* An insert or a push of last.value on the SmallVec adapter, and the
\* place (1-based) the value goes to.
AdapterStore ==
    /\ a.ty = "SmallVec"
    /\ last.op \in {"insert", "push"}
Place == IF last.op = "insert" THEN last.index + 1 ELSE Len(Old) + 1

\* C15: on the SmallVec adapter insert and push convert the incoming value
\* alike: a value whose runtime type is the element type is stored by
\* downcast; any other value is stored as the element from_reflect
\* reconstructs from it; if both steps fail the operation panics and the
\* list is unchanged.
C15_TwoStepConversion ==
    AdapterStore
        => LET v == last.value[1] IN
           /\ (take(v) = None /\ from_reflect(v) = None)
                  => (last.panicked /\ a.values = Old)
           /\ (take(v) # None /\ Place <= Len(Old) + 1)
                  => (~last.panicked /\ a.values[Place] = take(v)[1])
           /\ (take(v) = None /\ from_reflect(v) # None /\ Place <= Len(Old) + 1)
                  => (~last.panicked /\ a.values[Place] = from_reflect(v)[1])

\* A value of another type is reconstructed on insert.
C15_Witness ==
    /\ AdapterStore
    /\ last.op = "insert"
    /\ last.value = Some(Dyn1)
    /\ Len(Old) = 2
    /\ last.index = 1
    /\ Old[2] = Item(2)
    /\ ~last.panicked
    /\ a.values[2] = Item(1)

\* The element of the list at a 0-based index below its length.
ElementAt(index) == a.values[index + 1]

\* C16: in every list state that insert, remove, push, pop and apply reach,
\* get(index) and get_mut(index) are Some exactly when index < len(), and
\* then they are the element at that position; len() is the number of
\* elements, that is, of indices that get answers.
C16_GetDefinedBelowLen ==
    /\ \A index \in 0 .. USIZE_MAX :
           /\ (get(a, index) # None) <=> (index < len(a))
           /\ (get_mut(a, index) # None) <=> (index < len(a))
           /\ index < len(a)
                  => /\ get(a, index) = Some(ElementAt(index))
                     /\ get_mut(a, index) = Some(ElementAt(index))
    /\ len(a) = Cardinality({index \in 0 .. USIZE_MAX : get(a, index) # None})
    /\ last.op \in {"get", "get_mut"}
           => last.ret = (IF last.index < Len(a.values)
                          THEN Some(ElementAt(last.index)) ELSE None)

C16_Witness ==
    /\ last.op = "get"
    /\ a.ty = "SmallVec"
    /\ len(a) = 2
    /\ last.index = 1
    /\ last.ret = Some(ElementAt(1))
    /\ ElementAt(0) # ElementAt(1)
    /\ get(a, 2) = None
    /\ get_mut(a, 2) = None

SettingType == last.op = "set_represented_type"

\* C17: DynamicList::set_represented_type panics when the descriptor is not
\* a List descriptor, and then the stored represented type and the elements
\* are as before; given a List descriptor or None it stores it and leaves
\* the elements unchanged.
C17_SetRepresentedType ==
    SettingType
        => /\ a.values = Old
           /\ (B # "None" /\ ~IsListInfo(B))
                  => (last.panicked /\ a.represented_type = last.out[1])
           /\ (B = "None" \/ IsListInfo(B))
                  => (~last.panicked /\ a.represented_type = B)

\* A descriptor of a struct is refused by a list that represents a Vec.
C17_Witness ==
    /\ SettingType
    /\ B = "Struct(Foo)"
    /\ last.out = Some("List(Vec)")
    /\ len(a) >= 2
    /\ last.panicked
    /\ a.represented_type = "List(Vec)"

Hashing == last.op = "list_hash"
ElementHashes(values) == [k \in Indices(values) |-> reflect_hash(values[k])]

\* The lists of the concrete type and the length of a.
ListsLike ==
    {[a EXCEPT !.values = vs] :
        vs \in [Indices(a.values) -> IF a.ty = "SmallVec" THEN Items ELSE Elems]}

\* C18: list_hash(list) is None if and only if the hash of at least one
\* element is None; otherwise it depends only on the concrete type, the
\* length and the element hashes in order: lists of the same type and
\* length with the same element hashes in the same order hash equally.
C18_HashOfTypeLenAndElements ==
    Hashing
        => /\ (last.out = None)
                  <=> (\E k \in Indices(a.values) : reflect_hash(a.values[k]) = None)
           /\ last.out # None
                  => \A other \in ListsLike :
                         ElementHashes(other.values) = ElementHashes(a.values)
                             => list_hash(other) = last.out

\* A hashed list, and another list with other elements of the same hashes.
C18_Witness ==
    /\ Hashing
    /\ a.ty = "DynamicList"
    /\ a.values = <<Opaque, Item(2), Item(1)>>
    /\ last.out # None
    /\ last.out = list_hash([a EXCEPT !.values = <<Item(1), Item(2), Opaque>>])
    /\ last.out # list_hash([a EXCEPT !.values = <<Item(2), Item(1), Item(1)>>])

\* C19: an iterator over an unmutated list of length n starts at index 0,
\* yields get(0) .. get(n-1) in order, each once, then None, and its index
\* is the number of elements yielded so far.
C19_IterYieldsInOrder ==
    it.active
        => /\ it.index = Len(it.yielded)
           /\ it.index <= len(a)
           /\ \A k \in Indices(it.yielded) : Some(it.yielded[k]) = get(a, k - 1)
           /\ it.state = "new" => it.index = ListIter_new
           /\ it.state = "some" => it.item = get(a, it.index - 1)
           /\ it.state \in {"none", "none_again"}
                  => (it.item = None /\ it.index = len(a))

\* An exhausted iterator over a full list.
C19_Witness ==
    /\ it.active
    /\ it.state = "none"
    /\ len(a) = MaxLen
    /\ it.yielded = a.values
    /\ a.values[1] # a.values[2]

\* C20: before any call of next(), after any number of yielded elements and
\* after exhaustion, size_hint() is (len, Some(len)) for the length of the
\* list.
C20_SizeHintIsLen ==
    (it.active /\ it.hint # None)
        => it.hint = Some(<<Len(a.values), Some(Len(a.values))>>)

\* size_hint() after two of three elements were yielded.
C20_Witness ==
    /\ it.active
    /\ it.state = "some"
    /\ it.index = 2
    /\ len(a) = 3
    /\ it.hint = Some(<<3, Some(3)>>)

\* The elements that calls of next() on the iterator will still yield
\* before the first None.
Remaining == Len(ListIter_rest(a, it.index))

\* C21: in every state of an iterator over an unmutated list, the lower and
\* the upper bound size_hint() reports both equal the number of elements
\* that later calls of next() still yield before None.
C21_ExactSize ==
    (it.active /\ it.hint # None)
        => it.hint = Some(<<Remaining, Some(Remaining)>>)

\* try_apply(a, b) with list b returned the error of an element.
ElementFailed == last.op = "try_apply" /\ IsList(B) /\ last.res # Ok
\* Applying b[i] onto the old a[i] is the first application that fails.
FailedAt(i) ==
    /\ i < Len(Old)
    /\ i < len(B)
    /\ elem_try_apply(Old[i + 1], iter(B)[i + 1]).res = last.res
    /\ \A j \in 0 .. i - 1 : elem_try_apply(Old[j + 1], iter(B)[j + 1]).res = Ok

\* C22: when try_apply(a, b) with list b fails because applying b[i] onto
\* a[i] failed, len(a) is what it was before the call, the elements past
\* index i are unchanged, and the elements before index i hold what was
\* applied from b: nothing is rolled back and nothing is pushed.
C22_ErrorStopsWithoutRollback ==
    ElementFailed
        => \E i \in 0 .. Len(Old) - 1 :
               /\ FailedAt(i)
               /\ ~last.panicked
               /\ len(a) = Len(Old)
               /\ \A j \in i + 1 .. Len(Old) - 1 : get(a, j) = Some(Old[j + 1])
               /\ \A j \in 0 .. i - 1 :
                      get(a, j) = Some(elem_try_apply(Old[j + 1], iter(B)[j + 1]).value)

\* The application fails in the middle: the front element is changed, the
\* back element would have been but is not.
C22_Witness ==
    /\ ElementFailed
    /\ last.res = MismatchedTypes
    /\ Len(Old) = 3
    /\ len(B) = 3
    /\ FailedAt(1)
    /\ a.values[1] # Old[1]
    /\ a.values[3] = Old[3]
    /\ elem_try_apply(Old[3], iter(B)[3]).value # Old[3]

====
